---- MODULE Spec2Model ----
(***************************************************************************)
(* Model of scripts/get-steam-app-info.py: main() parses sys.argv[1:] into *)
(* a list of integers, constructs a SteamClient, logs in anonymously,      *)
(* calls get_product_info once and prints json.dumps(info, indent=2).      *)
(*                                                                         *)
(* Python strings are sequences of one-character strings, so that int()    *)
(* and json.dumps are modelled character by character.  Python values of   *)
(* the query result are tagged records [t |-> tag, v |-> payload].         *)
(***************************************************************************)
EXTENDS Integers, Sequences, FiniteSets

VARIABLES
    sys_argv,     \* the process argument vector, program name first
    pc,           \* position of main(): start, parse, construct, login, query, print, exit, done
    app_ids,      \* the list built by the comprehension of line 8
    loginCalls,   \* number of calls of client.anonymous_login()
    loginResult,  \* none | ok | failed (a non-OK result returned) | raised
    queryLog,     \* the apps= argument of every get_product_info call, in order
    queryResult,  \* none | returned | raised
    info,         \* the value bound to info at line 13
    stdout,       \* the texts written to standard output by print, in order
    exc,          \* the uncaught exception that ended the run, or "none"
    exitStatus,   \* the exit status of the process, -1 while it runs
    steps         \* the lifecycle steps begun so far, in order

vars == <<sys_argv, pc, app_ids, loginCalls, loginResult, queryLog, queryResult,
          info, stdout, exc, exitStatus, steps>>

----------------------------------------------------------------------------
(* Bounds and sample inputs *)

\* At most this many command-line arguments after the program name.
MaxArgs == 2

\* At most this many containers wrapped around a base value of the stubbed reply.
MaxDepth == 2

\* json.dumps(info, indent=2)
Indent == 2

ProgName == <<"g", "e", "t">>

\* Argument strings: valid literals "730", "440", "-7", " 1_0" and the
\* invalid "abc", "" and "7_".
ArgSamples ==
    { <<"7", "3", "0">>, <<"4", "4", "0">>, <<"-", "7">>, <<" ", "1", "_", "0">>,
      <<"a", "b", "c">>, <<>>, <<"7", "_">> }

RECURSIVE SeqsUpTo(_, _)
SeqsUpTo(S, n) ==
    IF n = 0 THEN {<<>>}
    ELSE LET shorter == SeqsUpTo(S, n - 1)
         IN shorter \cup {Append(s, x) : s \in {t \in shorter : Len(t) = n - 1}, x \in S}

----------------------------------------------------------------------------
(* int(arg) for a str argument, base 10 *)

Digits == {"0", "1", "2", "3", "4", "5", "6", "7", "8", "9"}

DigitVal(c) ==
    CASE c = "0" -> 0 [] c = "1" -> 1 [] c = "2" -> 2 [] c = "3" -> 3 [] c = "4" -> 4
      [] c = "5" -> 5 [] c = "6" -> 6 [] c = "7" -> 7 [] c = "8" -> 8 [] c = "9" -> 9

RECURSIVE StripLeft(_)
StripLeft(s) == IF s # <<>> /\ s[1] = " " THEN StripLeft(Tail(s)) ELSE s

RECURSIVE StripRight(_)
StripRight(s) ==
    IF s # <<>> /\ s[Len(s)] = " " THEN StripRight(SubSeq(s, 1, Len(s) - 1)) ELSE s

Strip(s) == StripRight(StripLeft(s))

HasSign(t) == t # <<>> /\ t[1] \in {"+", "-"}

\* The digits part of a stripped literal: what follows an optional sign.
Magnitude(t) == IF HasSign(t) THEN Tail(t) ELSE t

\* int() accepts optional surrounding whitespace, one optional sign, and digits
\* with single underscores between them; everything else raises ValueError.
IsIntLiteral(s) ==
    LET m == Magnitude(Strip(s))
    IN /\ m # <<>>
       /\ \A i \in 1..Len(m) : m[i] \in Digits \cup {"_"}
       /\ m[1] # "_"
       /\ m[Len(m)] # "_"
       /\ \A i \in 1..(Len(m) - 1) : ~(m[i] = "_" /\ m[i + 1] = "_")

RECURSIVE MagnitudeValue(_)
MagnitudeValue(m) ==
    IF m = <<>> THEN 0
    ELSE LET c == m[Len(m)]
             rest == SubSeq(m, 1, Len(m) - 1)
         IN IF c = "_" THEN MagnitudeValue(rest)
            ELSE 10 * MagnitudeValue(rest) + DigitVal(c)

\* IntValue dropping the sign.
IntValueUnsigned(s) == MagnitudeValue(Magnitude(Strip(s)))

IntValue(s) ==
    LET t == Strip(s)
    IN IF t # <<>> /\ t[1] = "-" THEN 0 - MagnitudeValue(Magnitude(t))
       ELSE MagnitudeValue(Magnitude(t))

----------------------------------------------------------------------------
(* Python values and json.dumps(obj, indent=2) *)

PyNone == [t |-> "none", v |-> 0]
PyBool(b) == [t |-> "bool", v |-> b]
PyInt(n) == [t |-> "int", v |-> n]
PyStr(s) == [t |-> "str", v |-> s]
PyBytes == [t |-> "bytes", v |-> 0]
PyList(xs) == [t |-> "list", v |-> xs]
\* A dict is its items in insertion order, each <<key, value>>.
PyDict(kvs) == [t |-> "dict", v |-> kvs]
Unset == [t |-> "unset", v |-> 0]

DigitChar(d) == <<"0", "1", "2", "3", "4", "5", "6", "7", "8", "9">>[d + 1]

RECURSIVE NatToStr(_)
NatToStr(n) ==
    IF n < 10 THEN <<DigitChar(n)>> ELSE NatToStr(n \div 10) \o <<DigitChar(n % 10)>>

\* int.__repr__
IntToStr(n) == IF n < 0 THEN <<"-">> \o NatToStr(0 - n) ELSE NatToStr(n)

\* The escapes of json's encoder for the characters of the model's alphabet.
EscapeChar(c) ==
    CASE c = "\"" -> <<"\\", "\"">>
      [] c = "\\" -> <<"\\", "\\">>
      [] c = "\n" -> <<"\\", "n">>
      [] OTHER -> <<c>>

RECURSIVE EscapeStr(_)
EscapeStr(s) == IF s = <<>> THEN <<>> ELSE EscapeChar(s[1]) \o EscapeStr(Tail(s))

Quote(s) == <<"\"">> \o EscapeStr(s) \o <<"\"">>

RECURSIVE Spaces(_)
Spaces(n) == IF n = 0 THEN <<>> ELSE <<" ">> \o Spaces(n - 1)

\* NewlineIndent with four spaces a level.
NewlineIndentWide(level) == <<"\n">> \o Spaces(4 * level)

\* The encoder's newline_indent at a nesting level.
NewlineIndent(level) == <<"\n">> \o Spaces(Indent * level)

ScalarText(x) ==
    CASE x.t = "none" -> <<"n", "u", "l", "l">>
      [] x.t = "bool" -> IF x.v THEN <<"t", "r", "u", "e">> ELSE <<"f", "a", "l", "s", "e">>
      [] x.t = "int" -> IntToStr(x.v)

\* A dict key: str as it is, int, bool and None converted to their text.
KeyText(k) == IF k.t = "str" THEN Quote(k.v) ELSE Quote(ScalarText(k))

IsKey(k) == k.t \in {"str", "int", "bool", "none"}

RECURSIVE Serializable(_)
Serializable(x) ==
    CASE x.t \in {"none", "bool", "int", "str"} -> TRUE
      [] x.t = "list" -> \A i \in 1..Len(x.v) : Serializable(x.v[i])
      [] x.t = "dict" ->
            \A i \in 1..Len(x.v) : IsKey(x.v[i][1]) /\ Serializable(x.v[i][2])
      [] OTHER -> FALSE

RECURSIVE Dumps(_, _)
RECURSIVE DumpsItems(_, _, _)
RECURSIVE DumpsPairs(_, _, _)

\* The items of a list from index i on, each on its own line at `level`.
DumpsItems(xs, level, i) ==
    IF i > Len(xs) THEN <<>>
    ELSE (IF i > 1 THEN <<",">> ELSE <<>>) \o NewlineIndent(level)
         \o Dumps(xs[i], level) \o DumpsItems(xs, level, i + 1)

DumpsPairs(kvs, level, i) ==
    IF i > Len(kvs) THEN <<>>
    ELSE (IF i > 1 THEN <<",">> ELSE <<>>) \o NewlineIndent(level)
         \o KeyText(kvs[i][1]) \o <<":", " ">>
         \o Dumps(kvs[i][2], level) \o DumpsPairs(kvs, level, i + 1)

\* json.dumps(x, indent=2) of a serializable x nested at `level`.
Dumps(x, level) ==
    CASE x.t = "str" -> Quote(x.v)
      [] x.t = "list" ->
            IF x.v = <<>> THEN <<"[", "]">>
            ELSE <<"[">> \o DumpsItems(x.v, level + 1, 1) \o NewlineIndent(level) \o <<"]">>
      [] x.t = "dict" ->
            IF x.v = <<>> THEN <<"{", "}">>
            ELSE <<"{">> \o DumpsPairs(x.v, level + 1, 1) \o NewlineIndent(level) \o <<"}">>
      [] OTHER -> ScalarText(x)

\* print(text): the text followed by the end string "\n", written to stdout.
PrintText(text) == text \o <<"\n">>

----------------------------------------------------------------------------
(* The stubbed collaborator's replies *)

BaseInfos ==
    { PyNone, PyDict(<<>>), PyList(<<>>), PyInt(730), PyBytes,
      PyStr(<<"E", "x", " ", "\"", "{", "\\">>) }

WrapApps(x) == PyDict(<< <<PyStr(<<"a", "p", "p", "s">>), x>> >>)
WrapAppId(x) == PyDict(<< <<PyInt(730), x>>, <<PyStr(<<"n">>), PyBool(TRUE)>> >>)
WrapList(x) == PyList(<<PyInt(1), x, PyStr(<<"[", " ">>)>>)

RECURSIVE InfosOfDepth(_)
InfosOfDepth(d) ==
    IF d = 0 THEN BaseInfos
    ELSE LET inner == InfosOfDepth(d - 1)
         IN {WrapApps(x) : x \in inner} \cup {WrapAppId(x) : x \in inner}
            \cup {WrapList(x) : x \in inner}

Infos == UNION {InfosOfDepth(d) : d \in 0..MaxDepth}

----------------------------------------------------------------------------
(* main() *)

Init ==
    /\ sys_argv \in {<<ProgName>> \o a : a \in SeqsUpTo(ArgSamples, MaxArgs)}
    /\ pc = "start"
    /\ app_ids = <<>>
    /\ loginCalls = 0
    /\ loginResult = "none"
    /\ queryLog = <<>>
    /\ queryResult = "none"
    /\ info = Unset
    /\ stdout = <<>>
    /\ exc = "none"
    /\ exitStatus = -1
    /\ steps = <<>>

\* sys.argv[1:]
Args == Tail(sys_argv)

\* An uncaught exception raised in a step: the interpreter ends the process
\* with status 1.  `begun` is the lifecycle step the exception interrupts, if
\* that step is not yet recorded.
Abort(e, begun) ==
    /\ pc' = "done"
    /\ exc' = e
    /\ exitStatus' = 1
    /\ steps' = steps \o begun \o <<"exit">>

\* Line 8 is entered: the comprehension starts with an empty list.
Start ==
    /\ pc = "start"
    /\ pc' = "parse"
    /\ steps' = Append(steps, "parse")
    /\ UNCHANGED <<sys_argv, app_ids, loginCalls, loginResult, queryLog, queryResult,
                   info, stdout, exc, exitStatus>>

\* ParseArg with a lenient conversion: an invalid argument yields 0 instead of
\* raising ValueError.
ParseArgLenient ==
    /\ pc = "parse"
    /\ Len(app_ids) < Len(Args)
    /\ LET arg == Args[Len(app_ids) + 1]
       IN app_ids' = Append(app_ids, IF IsIntLiteral(arg) THEN IntValue(arg) ELSE 0)
    /\ UNCHANGED <<sys_argv, pc, loginCalls, loginResult, queryLog, queryResult, info,
                   stdout, exc, exitStatus, steps>>

\* ParseArg inserting at the front of the list instead of appending.
ParseArgPrepend ==
    /\ pc = "parse"
    /\ Len(app_ids) < Len(Args)
    /\ LET arg == Args[Len(app_ids) + 1]
       IN \/ /\ IsIntLiteral(arg)
             /\ app_ids' = <<IntValue(arg)>> \o app_ids
             /\ UNCHANGED <<pc, exc, exitStatus, steps>>
          \/ /\ ~IsIntLiteral(arg)
             /\ Abort("ValueError", <<>>)
             /\ UNCHANGED app_ids
    /\ UNCHANGED <<sys_argv, loginCalls, loginResult, queryLog, queryResult, info, stdout>>

\* One iteration of [int(arg) for arg in sys.argv[1:]].
ParseArg ==
    /\ pc = "parse"
    /\ Len(app_ids) < Len(Args)
    /\ LET arg == Args[Len(app_ids) + 1]
       IN \/ /\ IsIntLiteral(arg)
             /\ app_ids' = Append(app_ids, IntValue(arg))
             /\ UNCHANGED <<pc, exc, exitStatus, steps>>
          \/ /\ ~IsIntLiteral(arg)
             /\ Abort("ValueError", <<>>)
             /\ UNCHANGED app_ids
    /\ UNCHANGED <<sys_argv, loginCalls, loginResult, queryLog, queryResult, info, stdout>>

\* The comprehension is exhausted: app_ids is bound, line 10 is next.
ParseDone ==
    /\ pc = "parse"
    /\ Len(app_ids) = Len(Args)
    /\ pc' = "construct"
    /\ UNCHANGED <<sys_argv, app_ids, loginCalls, loginResult, queryLog, queryResult,
                   info, stdout, exc, exitStatus, steps>>

\* client = SteamClient()
Construct ==
    /\ pc = "construct"
    /\ pc' = "login"
    /\ UNCHANGED <<sys_argv, app_ids, loginCalls, loginResult, queryLog, queryResult,
                   info, stdout, exc, exitStatus, steps>>

\* client.anonymous_login(): the call returns a result, which line 11 discards,
\* or raises.  A returned result is OK or a failure code.
Login ==
    /\ pc = "login"
    /\ loginCalls' = loginCalls + 1
    /\ \/ /\ \E r \in {"ok", "failed"} : loginResult' = r
          /\ pc' = "query"
          /\ steps' = Append(steps, "authenticate")
          /\ UNCHANGED <<exc, exitStatus>>
       \/ /\ loginResult' = "raised"
          /\ Abort("LoginError", <<"authenticate">>)
    /\ UNCHANGED <<sys_argv, app_ids, queryLog, queryResult, info, stdout>>

\* Query rejecting the empty batch locally: no call is made for an empty list.
QuerySkipEmpty ==
    /\ pc = "query"
    /\ queryLog' = IF app_ids = <<>> THEN queryLog ELSE Append(queryLog, app_ids)
    /\ \/ /\ \E r \in Infos : info' = r
          /\ queryResult' = "returned"
          /\ pc' = "print"
          /\ steps' = Append(steps, "query")
          /\ UNCHANGED <<exc, exitStatus>>
       \/ /\ queryResult' = "raised"
          /\ Abort("QueryError", <<"query">>)
          /\ UNCHANGED info
    /\ UNCHANGED <<sys_argv, app_ids, loginCalls, loginResult, stdout>>

\* Query catching the collaborator's error and going on with None.
QuerySwallow ==
    /\ pc = "query"
    /\ queryLog' = Append(queryLog, app_ids)
    /\ \/ /\ \E r \in Infos : info' = r
          /\ queryResult' = "returned"
       \/ /\ queryResult' = "raised"
          /\ info' = PyNone
    /\ pc' = "print"
    /\ steps' = Append(steps, "query")
    /\ UNCHANGED <<sys_argv, app_ids, loginCalls, loginResult, stdout, exc, exitStatus>>

\* info = client.get_product_info(apps=app_ids): one blocking call that returns
\* the collaborator's structure or raises.
Query ==
    /\ pc = "query"
    /\ queryLog' = Append(queryLog, app_ids)
    /\ \/ /\ \E r \in Infos : info' = r
          /\ queryResult' = "returned"
          /\ pc' = "print"
          /\ steps' = Append(steps, "query")
          /\ UNCHANGED <<exc, exitStatus>>
       \/ /\ queryResult' = "raised"
          /\ Abort("QueryError", <<"query">>)
          /\ UNCHANGED info
    /\ UNCHANGED <<sys_argv, app_ids, loginCalls, loginResult, stdout>>

\* print(json.dumps(info, indent=2)): json.dumps raises TypeError on a value it
\* cannot serialize, before print is called; otherwise print writes the text
\* and a newline.
PrintInfo ==
    /\ pc = "print"
    /\ \/ /\ Serializable(info)
          /\ stdout' = Append(stdout, PrintText(Dumps(info, 0)))
          /\ pc' = "exit"
          /\ steps' = Append(steps, "print")
          /\ UNCHANGED <<exc, exitStatus>>
       \/ /\ ~Serializable(info)
          /\ Abort("TypeError", <<"print">>)
          /\ UNCHANGED stdout
    /\ UNCHANGED <<sys_argv, app_ids, loginCalls, loginResult, queryLog, queryResult, info>>

\* main() returns and the module ends: the process exits with status 0.
Exit ==
    /\ pc = "exit"
    /\ pc' = "done"
    /\ exitStatus' = 0
    /\ steps' = Append(steps, "exit")
    /\ UNCHANGED <<sys_argv, app_ids, loginCalls, loginResult, queryLog, queryResult,
                   info, stdout, exc>>

Next == Start \/ ParseArg \/ ParseDone \/ Construct \/ Login \/ Query \/ PrintInfo \/ Exit

Spec == Init /\ [][Next]_vars

----------------------------------------------------------------------------
(* Vocabulary of the claims *)

AllArgsValid == \A i \in 1..Len(Args) : IsIntLiteral(Args[i])

\* The integers the arguments denote, in argument order.
ParsedArgs == [i \in 1..Len(Args) |-> IntValue(Args[i])]

\* The first non-blank character of s is a minus sign and some digit is not 0.
MinusSigned(s) ==
    \E i \in 1..Len(s) :
        /\ s[i] = "-"
        /\ \A j \in 1..(i - 1) : s[j] = " "
        /\ \E j \in (i + 1)..Len(s) : s[j] \in Digits \ {"0"}

\* A lexer of JSON text is outside a string ("out"), inside one ("str"), or
\* right after a backslash inside one ("esc"); LexStep is its move on c.
LexStep(state, c) ==
    CASE state = "out" -> IF c = "\"" THEN "str" ELSE "out"
      [] state = "esc" -> "str"
      [] c = "\\" -> "esc"
      [] c = "\"" -> "out"
      [] OTHER -> "str"

\* The lexer states after each of the characters lo..hi, starting in `state`.
RECURSIVE LexTrace(_, _, _, _)
LexTrace(text, lo, hi, state) ==
    IF lo > hi THEN <<>>
    ELSE IF lo = hi THEN <<LexStep(state, text[lo])>>
    ELSE LET mid == (lo + hi) \div 2
             left == LexTrace(text, lo, mid, state)
         IN left \o LexTrace(text, mid + 1, hi, left[Len(left)])

\* For each character of the text, whether it is outside every string literal.
Structural(text) ==
    LET after == LexTrace(text, 1, Len(text), "out")
    IN [i \in 1..Len(text) |->
            (IF i = 1 THEN "out" ELSE after[i - 1]) = "out" /\ text[i] # "\""]

\* The number of spaces at the start of the line beginning at p.
RECURSIVE LeadingSpaces(_, _)
LeadingSpaces(text, p) ==
    IF p <= Len(text) /\ text[p] = " " THEN 1 + LeadingSpaces(text, p + 1) ELSE 0

\* Every line starts with two spaces for each container open around it; a line
\* that closes a container is indented like the line that opened it.
IndentedByTwo(text) ==
    LET struct == Structural(text)
        opens == {i \in 1..Len(text) : struct[i] /\ text[i] \in {"{", "["}}
        shuts == {i \in 1..Len(text) : struct[i] /\ text[i] \in {"}", "]"}}
        starts == {1} \cup {i + 1 : i \in {j \in 1..(Len(text) - 1) :
                                              struct[j] /\ text[j] = "\n"}}
    IN \A p \in starts :
        LET k == LeadingSpaces(text, p)
            closes == p + k <= Len(text) /\ text[p + k] \in {"}", "]"}
            depth == Cardinality({i \in opens : i < p})
                     - Cardinality({i \in shuts : i < p})
                     - (IF closes THEN 1 ELSE 0)
        IN k = 2 * depth

\* The characters lo..hi of the text without those the mask drops.
RECURSIVE Keep(_, _, _, _)
Keep(text, drop, lo, hi) ==
    IF lo > hi THEN <<>>
    ELSE IF lo = hi THEN (IF drop[lo] THEN <<>> ELSE <<text[lo]>>)
    ELSE LET mid == (lo + hi) \div 2
         IN Keep(text, drop, lo, mid) \o Keep(text, drop, mid + 1, hi)

\* The text without its layout: blanks and newlines outside strings removed.
Squeeze(text) ==
    LET struct == Structural(text)
        drop == [i \in 1..Len(text) |-> struct[i] /\ text[i] \in {" ", "\n"}]
    IN Keep(text, drop, 1, Len(text))

\* The structure of a value written without any layout.
RECURSIVE Compact(_)
RECURSIVE CompactItems(_, _)
RECURSIVE CompactPairs(_, _)
CompactItems(xs, i) ==
    IF i > Len(xs) THEN <<>>
    ELSE (IF i > 1 THEN <<",">> ELSE <<>>) \o Compact(xs[i]) \o CompactItems(xs, i + 1)

CompactPairs(kvs, i) ==
    IF i > Len(kvs) THEN <<>>
    ELSE (IF i > 1 THEN <<",">> ELSE <<>>) \o KeyText(kvs[i][1]) \o <<":">>
         \o Compact(kvs[i][2]) \o CompactPairs(kvs, i + 1)

Compact(x) ==
    CASE x.t = "str" -> Quote(x.v)
      [] x.t = "list" -> <<"[">> \o CompactItems(x.v, 1) \o <<"]">>
      [] x.t = "dict" -> <<"{">> \o CompactPairs(x.v, 1) \o <<"}">>
      [] OTHER -> ScalarText(x)

IsPrefix(s, t) == Len(s) <= Len(t) /\ SubSeq(t, 1, Len(s)) = s

Lifecycle == <<"parse", "authenticate", "query", "print", "exit">>

Occurred(step) == \E i \in 1..Len(steps) : steps[i] = step

----------------------------------------------------------------------------
(* Claims *)

\* C1: if the anonymous login does not succeed, however the collaborator
\* signals it (a raised error or a returned failure result), no query is
\* issued, nothing is written to standard output and the exit status is not 0.
C1_FailedLoginIsFatal ==
    loginResult \in {"failed", "raised"} =>
        /\ queryLog = <<>>
        /\ stdout = <<>>
        /\ pc = "done" => exitStatus # 0

C3_IdsEqualParsedArgs ==
    \A k \in 1..Len(queryLog) :
        /\ Len(queryLog[k]) = Len(Args)
        /\ \A i \in 1..Len(Args) : queryLog[k][i] = IntValue(Args[i])

\* C3 witness: the same identifier given twice is passed twice.
C3_Witness ==
    /\ Args = << <<"7", "3", "0">>, <<"7", "3", "0">> >>
    /\ queryLog = << <<730, 730>> >>

\* C4: a finished run whose arguments all parse and whose login succeeded has
\* issued exactly one query, carrying the whole identifier list; no run issues
\* more than one.
C4_ExactlyOneQuery ==
    /\ Len(queryLog) <= 1
    /\ (pc = "done" /\ AllArgsValid /\ loginResult = "ok") =>
            queryLog = <<ParsedArgs>>

\* C4 witness: no arguments at all, and one query with the empty list.
C4_Witness ==
    /\ Args = <<>>
    /\ pc = "done"
    /\ loginResult = "ok"
    /\ queryLog = << <<>> >>

\* C5: when the query raises, the run is over: one query call, one login call,
\* nothing on standard output, and a non-zero exit status.
C5_QueryFailureIsFatal ==
    queryResult = "raised" =>
        /\ pc = "done"
        /\ Len(queryLog) = 1
        /\ loginCalls = 1
        /\ stdout = <<>>
        /\ exitStatus = 1

\* C5 witness: a query for two identifiers has raised.
C5_Witness ==
    /\ queryResult = "raised"
    /\ pc = "done"
    /\ queryLog = << <<440, 730>> >>

\* C6: the steps taken are a prefix of parse, authenticate, query, print,
\* possibly followed by exit, and a step is taken only if every earlier step
\* completed successfully.
C6_StrictlyLinear ==
    /\ \/ IsPrefix(steps, Lifecycle)
       \/ /\ steps # <<>>
          /\ steps[Len(steps)] = "exit"
          /\ IsPrefix(SubSeq(steps, 1, Len(steps) - 1), Lifecycle)
    /\ Occurred("authenticate") => AllArgsValid /\ Len(app_ids) = Len(Args)
    /\ Occurred("query") => loginResult = "ok"
    /\ Occurred("print") => queryResult = "returned"

\* C7: a run that ends with status 0 has written to standard output once: the
\* query result, laid out with two spaces for each nesting level, and one
\* newline after it.  No run writes more than once, or before the print step.
C7_OneIndentedWrite ==
    /\ Len(stdout) <= 1
    /\ stdout # <<>> => pc \in {"exit", "done"}
    /\ (pc = "done" /\ exitStatus = 0) =>
            /\ Len(stdout) = 1
            /\ LET out == stdout[1]
                   body == SubSeq(out, 1, Len(out) - 1)
               IN /\ Len(out) >= 2
                  /\ out[Len(out)] = "\n"
                  /\ body[Len(body)] # "\n"
                  /\ IndentedByTwo(body)
                  /\ Squeeze(body) = Compact(info)

\* C7 witness: {"apps": {730: None, "n": True}} has been printed.
C7_Witness ==
    /\ pc = "done"
    /\ exitStatus = 0
    /\ info = WrapApps(WrapAppId(PyNone))
    /\ stdout = << <<
       "{", "\n", " ", " ", "\"", "a", "p", "p", "s", "\"", ":", " ", "{",
       "\n", " ", " ", " ", " ", "\"", "7", "3", "0", "\"", ":", " ", "n",
       "u", "l", "l", ",", "\n", " ", " ", " ", " ", "\"", "n", "\"", ":",
       " ", "t", "r", "u", "e", "\n", " ", " ", "}", "\n", "}", "\n" >> >>

\* C8 as stated: every identifier passed to the query is non-negative.
C8_NonNegativeIds ==
    \A k \in 1..Len(queryLog) : \A i \in 1..Len(queryLog[k]) : queryLog[k][i] >= 0

\* C8 amended: every identifier passed to the query is an integer, and it is
\* negative exactly when its argument is a minus-signed literal other than zero.
C8_SignFollowsArgument ==
    \A k \in 1..Len(queryLog) : \A i \in 1..Len(queryLog[k]) :
        /\ queryLog[k][i] \in Int
        /\ i <= Len(Args)
        /\ queryLog[k][i] < 0 <=> MinusSigned(Args[i])

\* C8 witness: the argument "-7" has been passed to the query as -7.
C8_Witness ==
    /\ Args = << <<"-", "7">> >>
    /\ queryLog = << <<-7>> >>

\* C9: a run that has not ended can take a step, and a run that has ended has
\* status 0 exactly when parsing, login, query and the output write all
\* succeeded.
C9_ExitStatus ==
    /\ pc # "done" => ENABLED Next
    /\ pc = "done" =>
            /\ exitStatus \in {0, 1}
            /\ exitStatus = 0 <=>
                    /\ AllArgsValid
                    /\ loginResult = "ok"
                    /\ queryResult = "returned"
                    /\ Len(stdout) = 1
====
